---- MODULE Spec2Model ----
(***************************************************************************)
(* Model of the model layer of the e-commerce backend: categories,         *)
(* subcategories, products and their stock, cart rows, orders (pedidos)    *)
(* and order lines (detalles).                                             *)
(* Every handler is one action; the record "resultado" keeps the outcome   *)
(* of the handler that ran last (its name, its arguments, the error it     *)
(* threw or "ok").                                                         *)
(***************************************************************************)
EXTENDS Integers, Sequences, FiniteSets, TLC

VARIABLES
    producto,    \* table productos: id -> row
    carrito,     \* table carritos: set of rows
    pedidos,     \* table pedidos: sequence of rows, the id is the index
    detalles,    \* table detallesPedidos: sequence of rows, the id is the index
    resultado,   \* outcome of the last handler
    hilo,        \* the concurrent callers of the handlers (SpecConc, SpecCatConc)
    categorias,     \* table categorias: sequence of rows, the id is the index
    subcategorias   \* table subcategorias: sequence of rows, the id is the index

vars == <<producto, carrito, pedidos, detalles, resultado, hilo, categorias, subcategorias>>

(***************************************************************************)
(* Bounds of the model.                                                    *)
(***************************************************************************)
MaxStock == 4
MaxPedidos == 1
MaxDetalles == 2
MaxCategorias == 2
MaxSubcategorias == 3

Productos == {1, 2}
Usuarios == {1, 2}
Precios == {1, 2}
Cantidades == {1, 2}
MaxCantidad == 2
MaxHistorial == 4
Stocks == {0, 1, 2}
Hilos == {1, 2}

Estados == {"pendiente", "pagado", "enviado", "entregado", "cancelado"}

\* the names given to categories and subcategories; "x" is too short to validate
Nombres == {"x", "tv", "pc"}

NoProducto == [existe |-> FALSE, activo |-> FALSE, stock |-> 0, precio |-> 0,
               categoriaId |-> 0, subcategoriaId |-> 0]

Libre == [pc |-> "libre", op |-> "-", cant |-> 0, stock |-> 0, items |-> <<>>, res |-> "-",
          nombre |-> "-", estado |-> "-"]

Res(op, res, id, arg) == [op |-> op, res |-> res, id |-> id, arg |-> arg]

\* the elements of a set of ids, smallest first (the order of findAll)
RECURSIVE Ordenar(_)
Ordenar(S) ==
    IF S = {} THEN <<>>
    ELSE LET x == CHOOSE x \in S : \A y \in S : x <= y
         IN <<x>> \o Ordenar(S \ {x})

(***************************************************************************)
(* categoria                                                               *)
(***************************************************************************)

\* validate.len [2, 100] and notEmpty of the column nombre
NombreValido(nombre) == Len(nombre) >= 2 /\ Len(nombre) <= 100

\* a column nombre without its unique constraint
NombreCategoriaLibreSinIndice(nombre, salvo) == TRUE

\* the unique constraint of categorias.nombre: no row other than "salvo" has the name
NombreCategoriaLibre(nombre, salvo) ==
    \A c \in 1..Len(categorias) : c = salvo \/ categorias[c].nombre # nombre

\* categoria.findOne({where: {nombre}}) finds a row
categoriaExistente(nombre) == \E c \in 1..Len(categorias) : categorias[c].nombre = nombre

\* categoria.create: validation, then the INSERT under the unique constraint
categoriaCreateResultado(nombre) ==
    IF ~NombreValido(nombre) THEN "ValidationError"
    ELSE IF ~NombreCategoriaLibre(nombre, 0) THEN "UniqueConstraintError"
    ELSE "ok"

\* crearCategoria of the controller
crearCategoriaResultado(nombre) ==
    IF categoriaExistente(nombre) THEN "DuplicateName"
    ELSE categoriaCreateResultado(nombre)

crearCategoria(nombre) ==
    /\ Len(categorias) < MaxCategorias
    /\ LET r == crearCategoriaResultado(nombre) IN
        /\ categorias' = IF r = "ok"
                         THEN Append(categorias, [nombre |-> nombre, activo |-> TRUE])
                         ELSE categorias
        /\ resultado' = Res("crearCategoria", r, Len(categorias) + 1, nombre)
    /\ UNCHANGED <<producto, carrito, pedidos, detalles, hilo, subcategorias>>

\* actualizarCategoria of the controller, called with a new nombre
actualizarCategoriaResultado(id, nombre) ==
    IF id \notin 1..Len(categorias) THEN "NotFound"
    ELSE IF nombre # categorias[id].nombre /\ categoriaExistente(nombre) THEN "DuplicateName"
    ELSE IF ~NombreValido(nombre) THEN "ValidationError"
    ELSE IF ~NombreCategoriaLibre(nombre, id) THEN "UniqueConstraintError"
    ELSE "ok"

actualizarCategoria(id, nombre) ==
    /\ LET r == actualizarCategoriaResultado(id, nombre) IN
        /\ categorias' = IF r = "ok" THEN [categorias EXCEPT ![id].nombre = nombre]
                         ELSE categorias
        /\ resultado' = Res("actualizarCategoria", r, id, nombre)
    /\ UNCHANGED <<producto, carrito, pedidos, detalles, hilo, subcategorias>>

(***************************************************************************)
(* subcategoria                                                            *)
(***************************************************************************)

\* the unique constraint of the column subcategorias.nombre
NombreSubcategoriaLibre(nombre) ==
    \A s \in 1..Len(subcategorias) : subcategorias[s].nombre # nombre

\* the unique index nombre_categoria_unique
NombreCategoriaUnique(nombre, categoriaId) ==
    \A s \in 1..Len(subcategorias) :
        ~(subcategorias[s].nombre = nombre /\ subcategorias[s].categoriaId = categoriaId)

\* a hook beforeCreate that looks at nothing
subcategoriaBeforeCreateSinPadre(categoriaId) == "ok"

\* hook beforeCreate of Subcategoria
subcategoriaBeforeCreate(categoriaId) ==
    IF categoriaId \notin 1..Len(categorias) THEN "NotFound"
    ELSE IF ~categorias[categoriaId].activo THEN "InactiveParent"
    ELSE "ok"

\* Subcategoria.create: validation, hook beforeCreate, then the INSERT under the
\* unique constraints
subcategoriaCreateResultado(nombre, categoriaId) ==
    IF ~NombreValido(nombre) THEN "ValidationError"
    ELSE IF subcategoriaBeforeCreate(categoriaId) # "ok" THEN subcategoriaBeforeCreate(categoriaId)
    ELSE IF ~NombreSubcategoriaLibre(nombre) \/ ~NombreCategoriaUnique(nombre, categoriaId)
         THEN "DuplicateName"
    ELSE "ok"

subcategoriaCreate(nombre, categoriaId) ==
    /\ Len(subcategorias) < MaxSubcategorias
    /\ LET r == subcategoriaCreateResultado(nombre, categoriaId) IN
        /\ subcategorias' = IF r = "ok"
                            THEN Append(subcategorias, [nombre |-> nombre,
                                                        categoriaId |-> categoriaId,
                                                        activo |-> TRUE])
                            ELSE subcategorias
        /\ resultado' = Res("subcategoriaCreate", r, categoriaId, nombre)
    /\ UNCHANGED <<producto, carrito, pedidos, detalles, hilo, categorias>>

(***************************************************************************)
(* producto                                                                *)
(***************************************************************************)

\* a stock column without its validate.min
StockValidoSinMinimo(s) == TRUE

\* validate.min of producto.stock, run by create(), update() and save()
StockValido(s) == s >= 0

\* a beforeCreate of producto without its last test (subcategoria.categoriaId
\* against categoria.id)
productoCreateResultadoSinCoincidencia(p, categoriaId, subcategoriaId) ==
    IF categoriaId \notin 1..Len(categorias) THEN "NotFound"
    ELSE IF ~categorias[categoriaId].activo THEN "InactiveParent"
    ELSE IF subcategoriaId \notin 1..Len(subcategorias) THEN "NotFound"
    ELSE IF ~subcategorias[subcategoriaId].activo THEN "InactiveParent"
    ELSE IF \E q \in Productos : producto[q].existe /\ producto[q].categoriaId = categoriaId
         THEN "UniqueConstraintError"
    ELSE "ok"

\* hook beforeCreate of producto, then the INSERT under the unique index on categoriaId
productoCreateResultado(p, categoriaId, subcategoriaId) ==
    IF categoriaId \notin 1..Len(categorias) THEN "NotFound"
    ELSE IF ~categorias[categoriaId].activo THEN "InactiveParent"
    ELSE IF subcategoriaId \notin 1..Len(subcategorias) THEN "NotFound"
    ELSE IF ~subcategorias[subcategoriaId].activo THEN "InactiveParent"
    ELSE IF subcategorias[subcategoriaId].categoriaId # categoriaId THEN "CategoryMismatch"
    ELSE IF \E q \in Productos : producto[q].existe /\ producto[q].categoriaId = categoriaId
         THEN "UniqueConstraintError"
    ELSE "ok"

\* producto.create({stock, precio, categoriaId, subcategoriaId}): the row is inserted
\* when its fields validate and the hook lets it through
productoCreate(p, s, precio, categoriaId, subcategoriaId) ==
    /\ ~producto[p].existe
    /\ StockValido(s)
    /\ LET r == productoCreateResultado(p, categoriaId, subcategoriaId) IN
        /\ producto' = IF r = "ok"
                       THEN [producto EXCEPT ![p] =
                               [existe |-> TRUE, activo |-> TRUE, stock |-> s,
                                precio |-> precio, categoriaId |-> categoriaId,
                                subcategoriaId |-> subcategoriaId]]
                       ELSE producto
        /\ resultado' = Res("productoCreate", r, p, s)
    /\ UNCHANGED <<carrito, pedidos, detalles, hilo, categorias, subcategorias>>

\* producto.update({activo}): the administrator switches one product on or off
productoSetActivo(p, activo) ==
    /\ producto[p].existe
    /\ producto' = [producto EXCEPT ![p].activo = activo]
    /\ resultado' = Res("productoSetActivo", "ok", p, 0)
    /\ UNCHANGED <<carrito, pedidos, detalles, hilo, categorias, subcategorias>>

\* what the file system does with the image of a product that is deleted: the
\* file is there and is unlinked, the file is not there, or the call throws
Archivos == {"existe", "falta", "error"}

\* a deleteFile without its try/catch
deleteFileSinCatch(archivo) ==
    IF archivo = "existe" THEN "true"
    ELSE IF archivo = "falta" THEN "false"
    ELSE "throw"

\* deleteFile of config/multer: true when the file was there and was unlinked,
\* false when it was not there, and false from the catch when anything threw
deleteFile(archivo) ==
    IF archivo = "existe" THEN "true"
    ELSE IF archivo = "falta" THEN "false"
    ELSE "false"

\* hook beforeDestroy of producto: a product with an image has its file deleted
\* and the answer logged; what deleteFile throws would reach destroy()
productoBeforeDestroy(imagen, archivo) ==
    IF imagen /\ deleteFile(archivo) = "throw" THEN "FileError" ELSE "ok"

\* the hook, then the DELETE under the foreign keys: RESTRICT from the order
\* lines of the product, CASCADE to its cart rows
productoDestroyResultado(p, imagen, archivo) ==
    IF productoBeforeDestroy(imagen, archivo) # "ok"
    THEN productoBeforeDestroy(imagen, archivo)
    ELSE IF \E i \in 1..Len(detalles) : detalles[i].productoId = p
         THEN "ForeignKeyConstraintError"
    ELSE "ok"

\* producto.destroy() of the instance p, whose column imagen is set or null
productoDestroy(p, imagen, archivo) ==
    /\ producto[p].existe
    /\ LET r == productoDestroyResultado(p, imagen, archivo) IN
        /\ producto' = IF r = "ok" THEN [producto EXCEPT ![p] = NoProducto] ELSE producto
        /\ carrito' = IF r = "ok" THEN {it \in carrito : it.productoId # p} ELSE carrito
        /\ resultado' = Res("productoDestroy", r, p, IF imagen THEN archivo ELSE "sin imagen")
    /\ UNCHANGED <<pedidos, detalles, hilo, categorias, subcategorias>>

\* a HayStock that wants more than the quantity asked for
HayStockEstricto(stock, cantidad) == stock > cantidad

\* producto.prototype.HayStock(cantidad)
HayStock(stock, cantidad) == stock >= cantidad

\* a caller asks prducto.HayStock(cantidad) of a loaded product and gets the answer
consultarHayStock(p, cantidad) ==
    /\ producto[p].existe
    /\ resultado' = Res("HayStock",
                        IF HayStock(producto[p].stock, cantidad) THEN "true" ELSE "false",
                        p, cantidad)
    /\ UNCHANGED <<producto, carrito, pedidos, detalles, hilo, categorias, subcategorias>>

\* The three outcomes of reducirStock on an instance whose stock is "stock":
\* the throw of line 269, the rejection of save() by the validator, or the write.
reducirStockResultado(stock, cantidad) ==
    IF HayStock(stock, cantidad) THEN [res |-> "InsufficientStock", stock |-> stock]
    ELSE IF ~StockValido(stock - cantidad) THEN [res |-> "ValidationError", stock |-> stock]
    ELSE [res |-> "ok", stock |-> stock - cantidad]

\* producto.reducirStock(cantidad) on a freshly loaded instance
reducirStock(p, cantidad) ==
    /\ producto[p].existe
    /\ LET r == reducirStockResultado(producto[p].stock, cantidad) IN
        /\ producto' = [producto EXCEPT ![p].stock = r.stock]
        /\ resultado' = Res("reducirStock", r.res, p, cantidad)
    /\ UNCHANGED <<carrito, pedidos, detalles, hilo, categorias, subcategorias>>

\* an aumentarStock that adds one unit whatever the quantity
aumentarStockResultadoDeUno(stock, cantidad) == stock + 1

\* producto.aumentarStock(cantidad): adds and saves
aumentarStockResultado(stock, cantidad) == stock + cantidad

aumentarStock(p, cantidad) ==
    /\ producto[p].existe
    /\ aumentarStockResultado(producto[p].stock, cantidad) <= MaxStock
    /\ StockValido(aumentarStockResultado(producto[p].stock, cantidad))
    /\ producto' = [producto EXCEPT
                        ![p].stock = aumentarStockResultado(producto[p].stock, cantidad)]
    /\ resultado' = Res("aumentarStock", "ok", p, cantidad)
    /\ UNCHANGED <<carrito, pedidos, detalles, hilo, categorias, subcategorias>>

\* producto.update({stock, precio}): the administrator's edit of a product row
productoUpdate(p, s, precio) ==
    /\ producto[p].existe
    /\ StockValido(s)
    /\ producto' = [producto EXCEPT ![p].stock = s, ![p].precio = precio]
    /\ resultado' = Res("productoUpdate", "ok", p, s)
    /\ UNCHANGED <<carrito, pedidos, detalles, hilo, categorias, subcategorias>>

(***************************************************************************)
(* Activation cascades.  toggleCategoria saves the category without a      *)
(* transaction, so options.transaction is undefined in the hooks and every *)
(* update of the cascade is a statement of its own.  A cascade is the      *)
(* sequence of those updates, all of them writing activo = false; a call   *)
(* whose cascade breaks after k of them (a rejected statement, a hook that *)
(* throws) has written the first k and throws.                             *)
(***************************************************************************)
SubcategoriasDe(categoriaId) ==
    {s \in 1..Len(subcategorias) : subcategorias[s].categoriaId = categoriaId}

ProductosDeSubcategoria(subcategoriaId) ==
    {p \in Productos : producto[p].existe /\ producto[p].subcategoriaId = subcategoriaId}

ProductosDeCategoria(categoriaId) ==
    {p \in Productos : producto[p].existe /\ producto[p].categoriaId = categoriaId}

Escritura(tabla, id) == [tabla |-> tabla, id |-> id]

RECURSIVE EscriturasDe(_, _)
EscriturasDe(tabla, ids) ==
    IF ids = <<>> THEN <<>>
    ELSE <<Escritura(tabla, Head(ids))>> \o EscriturasDe(tabla, Tail(ids))

\* a hook that cascades on every change of activo
cambioDeActivo(antes, ahora) == antes # ahora

\* the test of both hooks afterUpdate: changed("activo") && !activo
cambioAInactivo(antes, ahora) == antes # ahora /\ ~ahora

\* a hook afterUpdate of Subcategoria that updates no product
afterUpdateSubcategoriaSinProductos(subcategoriaId, antes, ahora) == <<>>

\* hook afterUpdate of Subcategoria: the products of the subcategory
afterUpdateSubcategoria(subcategoriaId, antes, ahora) ==
    IF cambioAInactivo(antes, ahora)
    THEN EscriturasDe("producto", Ordenar(ProductosDeSubcategoria(subcategoriaId)))
    ELSE <<>>

\* one turn of the loop of the hook afterUpdate of Categoria: the subcategory (and
\* through its own hook its products), then the products of the category
RECURSIVE cascadaSubcategorias(_, _)
cascadaSubcategorias(categoriaId, subs) ==
    IF subs = <<>> THEN <<>>
    ELSE <<Escritura("subcategoria", Head(subs))>>
         \o afterUpdateSubcategoria(Head(subs), subcategorias[Head(subs)].activo, FALSE)
         \o EscriturasDe("producto", Ordenar(ProductosDeCategoria(categoriaId)))
         \o cascadaSubcategorias(categoriaId, Tail(subs))

\* a hook afterUpdate of Categoria that stops after its first subcategory
afterUpdateCategoriaUnaSola(categoriaId, antes, ahora) ==
    IF cambioAInactivo(antes, ahora) /\ SubcategoriasDe(categoriaId) # {}
    THEN cascadaSubcategorias(categoriaId, <<Head(Ordenar(SubcategoriasDe(categoriaId)))>>)
    ELSE <<>>

\* hook afterUpdate of Categoria
afterUpdateCategoria(categoriaId, antes, ahora) ==
    IF cambioAInactivo(antes, ahora)
    THEN cascadaSubcategorias(categoriaId, Ordenar(SubcategoriasDe(categoriaId)))
    ELSE <<>>

\* the tables after the first k updates of a cascade
subcategoriasTras(escrituras, k) ==
    [s \in 1..Len(subcategorias) |->
        IF \E i \in 1..k : escrituras[i] = Escritura("subcategoria", s)
        THEN [subcategorias[s] EXCEPT !.activo = FALSE]
        ELSE subcategorias[s]]

productoTras(escrituras, k) ==
    [p \in Productos |->
        IF \E i \in 1..k : escrituras[i] = Escritura("producto", p)
        THEN [producto[p] EXCEPT !.activo = FALSE]
        ELSE producto[p]]

\* toggleCategoria of the controller: the category is saved with the other value
\* of activo, then the hook runs; k updates of the cascade get through
toggleCategoria(id, k, falla) ==
    /\ id \in 1..Len(categorias)
    /\ LET antes == categorias[id].activo
           escrituras == afterUpdateCategoria(id, antes, ~antes)
       IN /\ k \in 0..Len(escrituras)
          /\ k < Len(escrituras) => falla
          /\ falla => cambioAInactivo(antes, ~antes)
          /\ categorias' = [categorias EXCEPT ![id].activo = ~antes]
          /\ subcategorias' = subcategoriasTras(escrituras, k)
          /\ producto' = productoTras(escrituras, k)
          /\ resultado' = Res("toggleCategoria", IF falla THEN "CascadeError" ELSE "ok", id, k)
    /\ UNCHANGED <<carrito, pedidos, detalles, hilo>>

\* subcategoria.update({activo}): the row is saved, then the hook runs
subcategoriaUpdate(id, activo, k, falla) ==
    /\ id \in 1..Len(subcategorias)
    /\ subcategorias[id].activo # activo
    /\ LET escrituras == afterUpdateSubcategoria(id, subcategorias[id].activo, activo)
       IN /\ k \in 0..Len(escrituras)
          /\ k < Len(escrituras) => falla
          /\ subcategorias' = [subcategorias EXCEPT ![id].activo = activo]
          /\ producto' = productoTras(escrituras, k)
          /\ resultado' = Res("subcategoriaUpdate", IF falla THEN "CascadeError" ELSE "ok", id, k)
    /\ UNCHANGED <<carrito, pedidos, detalles, hilo, categorias>>

\* the data of toggleCategoria's response: subcategoria.count and producto.count
\* with where {categoriaId: id}, asked after the save
toggleCategoriaRespuesta(subs, prods, id) ==
    [subcategoria |-> Cardinality({s \in 1..Len(subs) : subs[s].categoriaId = id}),
     producto |-> Cardinality({p \in Productos :
                                  prods[p].existe /\ prods[p].categoriaId = id})]

(***************************************************************************)
(* carrito                                                                 *)
(***************************************************************************)
\* a findAll without its where clause
ItemsDeTodos(u) == carrito

\* carrito.findAll({where: {usuarioId}})
ItemsDe(u) == {it \in carrito : it.usuarioId = u}

\* carrito.prototype.calcularSubtotal and detallePedido.prototype.calcularSubtotal
calcularSubtotal(precioUnitario, cantidad) == precioUnitario * cantidad

\* carrito.calcularTotalCarrito(usuarioId)
RECURSIVE SumaSubtotales(_)
SumaSubtotales(S) ==
    IF S = {} THEN 0
    ELSE LET it == CHOOSE it \in S : TRUE
         IN calcularSubtotal(it.precioUnitario, it.cantidad) + SumaSubtotales(S \ {it})

calcularTotalCarrito(u) == SumaSubtotales(ItemsDe(u))

\* a cantidad column without its validate.min
CantidadValidaSinMinimo(cantidad) == TRUE

\* validate.min of carrito.cantidad (isInt holds of every integer), run by
\* create() and save() before any hook
CantidadValida(cantidad) == cantidad >= 1

\* the validation of the fields, the hook beforeCreate of carrito, then the insert
\* under the unique index usuario_producto_unique
carritoCreateResultado(u, p, cantidad) ==
    IF ~CantidadValida(cantidad) THEN "ValidationError"
    ELSE IF ~producto[p].existe THEN "NotFound"
    ELSE IF ~producto[p].activo THEN "InactiveProduct"
    ELSE IF ~HayStock(producto[p].stock, cantidad) THEN "InsufficientStock"
    ELSE IF \E it \in carrito : it.usuarioId = u /\ it.productoId = p THEN "UniqueViolation"
    ELSE "ok"

carritoCreate(u, p, cantidad) ==
    /\ LET r == carritoCreateResultado(u, p, cantidad) IN
        /\ carrito' = IF r = "ok"
                      THEN carrito \cup {[usuarioId |-> u, productoId |-> p,
                                          cantidad |-> cantidad,
                                          precioUnitario |-> producto[p].precio]}
                      ELSE carrito
        /\ resultado' = Res("carritoCreate", r, u, p)
    /\ UNCHANGED <<producto, pedidos, detalles, hilo, categorias, subcategorias>>

\* an actualizarCantidad that takes the product's price again
itemActualizadoConPrecio(it, nuevaCantidad) ==
    [it EXCEPT !.cantidad = nuevaCantidad, !.precioUnitario = producto[it.productoId].precio]

\* the row actualizarCantidad saves: this.cantidad = nuevaCantidad, the other
\* columns as loaded
itemActualizado(it, nuevaCantidad) == [it EXCEPT !.cantidad = nuevaCantidad]

\* an actualizarCantidad without its test of the stock
actualizarCantidadResultadoSinStock(it, nuevaCantidad) ==
    IF ~CantidadValida(nuevaCantidad) THEN "ValidationError"
    ELSE "ok"

\* carrito.prototype.actualizarCantidad: the product is loaded again, hayStock is
\* asked for the new quantity, then save() validates the row and writes it.  The
\* hook registered as "BeforeUpdate" is not a hook save() runs.
actualizarCantidadResultado(it, nuevaCantidad) ==
    IF ~HayStock(producto[it.productoId].stock, nuevaCantidad) THEN "InsufficientStock"
    ELSE IF ~CantidadValida(nuevaCantidad) THEN "ValidationError"
    ELSE "ok"

\* item.actualizarCantidad(nuevaCantidad) on the cart row of user u for product p
actualizarCantidad(u, p, nuevaCantidad) ==
    /\ \E it \in carrito :
          /\ it.usuarioId = u /\ it.productoId = p
          /\ LET r == actualizarCantidadResultado(it, nuevaCantidad) IN
              /\ carrito' = IF r = "ok"
                            THEN (carrito \ {it}) \cup {itemActualizado(it, nuevaCantidad)}
                            ELSE carrito
              /\ resultado' = Res("actualizarCantidad", r, u, p)
    /\ UNCHANGED <<producto, pedidos, detalles, hilo, categorias, subcategorias>>

\* a caller asks carrito.calcularTotalCarrito(usuarioId) and gets the total
consultarTotalCarrito(u) ==
    /\ resultado' = Res("calcularTotalCarrito", "ok", u, calcularTotalCarrito(u))
    /\ UNCHANGED <<producto, carrito, pedidos, detalles, hilo, categorias, subcategorias>>

\* a destroy without its where clause
vaciarCarritoTodos(u) ==
    /\ carrito' = {}
    /\ resultado' = Res("vaciarCarrito", "ok", u, 0)
    /\ UNCHANGED <<producto, pedidos, detalles, hilo, categorias, subcategorias>>

\* carrito.vaciarCarrito(usuarioId)
vaciarCarrito(u) ==
    /\ carrito' = carrito \ ItemsDe(u)
    /\ resultado' = Res("vaciarCarrito", "ok", u, 0)
    /\ UNCHANGED <<producto, pedidos, detalles, hilo, categorias, subcategorias>>

(***************************************************************************)
(* pedido and detallePedido                                                *)
(***************************************************************************)
\* a row of pedidos as create() inserts it: estado takes its default and the three
\* dates are null (FALSE: not set)
pedidoNuevo(u, total) ==
    [usuarioId |-> u, total |-> total, estado |-> "pendiente",
     fechaPago |-> FALSE, fechaEnvio |-> FALSE, fechaEntrega |-> FALSE]

\* pedido.create({usuarioId, total, ...})
pedidoCreate(u) ==
    /\ Len(pedidos) < MaxPedidos
    /\ pedidos' = Append(pedidos, pedidoNuevo(u, calcularTotalCarrito(u)))
    /\ resultado' = Res("pedidoCreate", "ok", Len(pedidos) + 1, u)
    /\ UNCHANGED <<producto, carrito, detalles, hilo, categorias, subcategorias>>

\* pedido.create for the order history: the rows of pedidos are in the order of
\* their creation, so a later createdAt is a higher index
pedidoCreateHistorial(u) ==
    /\ Len(pedidos) < MaxHistorial
    /\ pedidos' = Append(pedidos, pedidoNuevo(u, calcularTotalCarrito(u)))
    /\ resultado' = Res("pedidoCreate", "ok", Len(pedidos) + 1, u)
    /\ UNCHANGED <<producto, carrito, detalles, hilo, categorias, subcategorias>>

\* the orders of user u
PedidosDe(u) == {id \in 1..Len(pedidos) : pedidos[id].usuarioId = u}

\* the orders in which a SELECT without ORDER BY may return the rows S
Ordenes(S) ==
    {orden \in [1..Cardinality(S) -> S] :
        \A i, j \in 1..Cardinality(S) : i # j => orden[i] # orden[j]}

\* pedido.obtenerHistorialPorUsuario(usuarioId): findAll with where {usuarioId}
\* and the option "orders", which is not an option of findAll (the option is
\* "order"): the query has no ORDER BY and the rows come in an order the
\* database chooses
obtenerHistorialPorUsuario(u) ==
    /\ \E orden \in Ordenes(PedidosDe(u)) :
            resultado' = Res("obtenerHistorialPorUsuario", "ok", u, orden)
    /\ UNCHANGED <<producto, carrito, pedidos, detalles, hilo, categorias, subcategorias>>

\* the items handed to crearDesdeCarrito, in the order of their productoId
RECURSIVE EnOrden(_)
EnOrden(S) ==
    IF S = {} THEN <<>>
    ELSE LET x == CHOOSE x \in S : \A y \in S : x.productoId <= y.productoId
         IN <<x>> \o EnOrden(S \ {x})

\* detallePedido.create of one item: hook beforeCreate computes the subtotal
detalleDe(pedidoID, item) ==
    [pedidoId |-> pedidoID, productoId |-> item.productoId, cantidad |-> item.cantidad,
     precioUnitario |-> item.precioUnitario,
     subtotal |-> calcularSubtotal(item.precioUnitario, item.cantidad)]

RECURSIVE detallesDe(_, _)
detallesDe(pedidoID, items) ==
    IF items = <<>> THEN <<>>
    ELSE <<detalleDe(pedidoID, Head(items))>> \o detallesDe(pedidoID, Tail(items))

\* detallePedido.crearDesdeCarrito(pedidoID, itemsCarrito), itemsCarrito being the
\* cart rows of user u
crearDesdeCarrito(pedidoID, u) ==
    /\ pedidoID \in 1..Len(pedidos)
    /\ Len(detalles) + Cardinality(ItemsDe(u)) <= MaxDetalles
    /\ detalles' = detalles \o detallesDe(pedidoID, EnOrden(ItemsDe(u)))
    /\ resultado' = Res("crearDesdeCarrito", "ok", pedidoID, u)
    /\ UNCHANGED <<producto, carrito, pedidos, hilo, categorias, subcategorias>>

\* detallePedido.calcularTotalPedido(pedidoId): the sum of the subtotals of the
\* lines found with where {pedidoId}
RECURSIVE SumaSubtotalLineas(_, _)
SumaSubtotalLineas(dets, I) ==
    IF I = {} THEN 0
    ELSE LET i == CHOOSE i \in I : TRUE
         IN dets[i].subtotal + SumaSubtotalLineas(dets, I \ {i})

calcularTotalPedido(pedidoId) ==
    SumaSubtotalLineas(detalles, {i \in 1..Len(detalles) : detalles[i].pedidoId = pedidoId})

\* the subtotal of a line after an update of its cantidad or precioUnitario.  The
\* hook that recomputes it is registered under the key "BeforeUpdate", which is
\* not a hook update() or save() runs (they run beforeUpdate), and it asks
\* changed("PrecioUnitario"), which is not an attribute: the stored subtotal
\* stays.
subtotalTrasUpdate(detalle, cantidad, precioUnitario) == detalle.subtotal

\* detalle.update({cantidad, precioUnitario}) on the line i: the fields are
\* validated (cantidad min 1), then the UPDATE writes the changed columns
detalleUpdate(i, cantidad, precioUnitario) ==
    /\ i \in 1..Len(detalles)
    /\ IF CantidadValida(cantidad)
       THEN /\ detalles' = [detalles EXCEPT
                    ![i] = [@ EXCEPT !.cantidad = cantidad,
                                     !.precioUnitario = precioUnitario,
                                     !.subtotal = subtotalTrasUpdate(detalles[i], cantidad,
                                                                     precioUnitario)]]
            /\ resultado' = Res("detalleUpdate", "ok", i, cantidad)
       ELSE /\ detalles' = detalles
            /\ resultado' = Res("detalleUpdate", "ValidationError", i, cantidad)
    /\ UNCHANGED <<producto, carrito, pedidos, hilo, categorias, subcategorias>>

\* pedido.prototype.cambiarEstado(nuevoEstado): save() writes the changed column
\* estado.  The hook that stamps the dates is registered under the key
\* "AfterUpdate", which is not a hook that save() runs (it runs afterUpdate), and
\* what it assigns it assigns to the instance after the UPDATE, saving "producto"
\* and never the pedido: no date reaches the row.
cambiarEstadoResultado(estado, nuevoEstado) ==
    IF nuevoEstado \notin Estados THEN [res |-> "InvalidState", estado |-> estado]
    ELSE [res |-> "ok", estado |-> nuevoEstado]

cambiarEstado(id, nuevoEstado) ==
    /\ id \in 1..Len(pedidos)
    /\ LET r == cambiarEstadoResultado(pedidos[id].estado, nuevoEstado) IN
        /\ pedidos' = [pedidos EXCEPT ![id].estado = r.estado]
        /\ resultado' = Res("cambiarEstado", r.res, id, nuevoEstado)
    /\ UNCHANGED <<producto, carrito, detalles, hilo, categorias, subcategorias>>

\* a hook beforeDestroy that lets the destroy through
beforeDestroySinError(ped) == "ok"

\* hook beforeDestroy of pedido: it throws, whatever the order
beforeDestroy(ped) == "OperationNotAllowed"

\* the lines left when the DELETE of an order cascades (pedido.hasMany onDelete CASCADE)
RECURSIVE sinLineasDe(_, _)
sinLineasDe(dets, id) ==
    IF dets = <<>> THEN <<>>
    ELSE (IF Head(dets).pedidoId = id THEN <<>> ELSE <<Head(dets)>>)
         \o sinLineasDe(Tail(dets), id)

\* pedido.destroy() of an instance: the hook runs before the DELETE
pedidoDestroy(id) ==
    /\ id \in 1..Len(pedidos)
    /\ LET r == beforeDestroy(pedidos[id]) IN
        /\ pedidos' = IF r = "ok"
                      THEN SubSeq(pedidos, 1, id - 1) \o SubSeq(pedidos, id + 1, Len(pedidos))
                      ELSE pedidos
        /\ detalles' = IF r = "ok" THEN sinLineasDe(detalles, id) ELSE detalles
        /\ resultado' = Res("pedidoDestroy", r, id, 0)
    /\ UNCHANGED <<producto, carrito, hilo, categorias, subcategorias>>

\* a test that lets every order be cancelled
puedeSerCanceladoSiempre(estado) == TRUE

\* pedido.prototype.puedeSerCancelado
puedeSerCancelado(estado) == estado \in {"pendiente", "pagado"}

\* sum of the quantities of the lines with index in I that are of product p
RECURSIVE SumaCantidad(_, _, _)
SumaCantidad(dets, I, p) ==
    IF I = {} THEN 0
    ELSE LET i == CHOOSE i \in I : TRUE
         IN (IF dets[i].productoId = p THEN dets[i].cantidad ELSE 0)
            + SumaCantidad(dets, I \ {i}, p)

\* sum of the quantities of the cart rows in S that are of product p
RECURSIVE SumaCantidadItems(_, _)
SumaCantidadItems(S, p) ==
    IF S = {} THEN 0
    ELSE LET it == CHOOSE it \in S : TRUE
         IN (IF it.productoId = p THEN it.cantidad ELSE 0) + SumaCantidadItems(S \ {it}, p)

LineasDe(dets, id) == {i \in 1..Len(dets) : dets[i].pedidoId = id}

\* a loop that gives back one unit per product instead of the lines' quantities
StockDevueltoUnaVez(id) ==
    [p \in Productos |->
        IF producto[p].existe /\ SumaCantidad(detalles, LineasDe(detalles, id), p) > 0
        THEN [producto[p] EXCEPT !.stock = aumentarStockResultado(@, 1)]
        ELSE producto[p]]

\* the loop of cancelar over the lines of the order: every line's product, when
\* it exists, gets the line's quantity through aumentarStock
StockDevuelto(id) ==
    [p \in Productos |->
        IF producto[p].existe
        THEN [producto[p] EXCEPT !.stock =
                aumentarStockResultado(@, SumaCantidad(detalles, LineasDe(detalles, id), p))]
        ELSE producto[p]]

\* pedido.prototype.cancelar
cancelar(id) ==
    /\ id \in 1..Len(pedidos)
    /\ IF ~puedeSerCancelado(pedidos[id].estado)
       THEN /\ resultado' = Res("cancelar", "InvalidState", id, 0)
            /\ UNCHANGED <<producto, pedidos>>
       ELSE /\ \A p \in Productos : StockDevuelto(id)[p].stock <= MaxStock
            /\ producto' = StockDevuelto(id)
            /\ pedidos' = [pedidos EXCEPT ![id].estado = "cancelado"]
            /\ resultado' = Res("cancelar", "ok", id, 0)
    /\ UNCHANGED <<carrito, detalles, hilo, categorias, subcategorias>>

\* the lines of order id that the loop of cancelar visits before its k+1-th turn
PrimerasLineas(dets, id, k) ==
    {i \in LineasDe(dets, id) : Cardinality({j \in LineasDe(dets, id) : j <= i}) <= k}

\* the products after the first k turns of the loop of cancelar
StockDevueltoHasta(id, k) ==
    [p \in Productos |->
        IF producto[p].existe
        THEN [producto[p] EXCEPT !.stock =
                aumentarStockResultado(@, SumaCantidad(detalles, PrimerasLineas(detalles, id, k), p))]
        ELSE producto[p]]

\* pedido.prototype.cancelar when the await of turn k+1 of its loop rejects
\* (findByPk or the save of aumentarStock fails): the error leaves cancelar, the
\* writes of the first k turns stay, there being no transaction, and the status
\* is not written
cancelarInterrumpido(id, k) ==
    /\ id \in 1..Len(pedidos)
    /\ puedeSerCancelado(pedidos[id].estado)
    /\ k \in 0..(Cardinality(LineasDe(detalles, id)) - 1)
    /\ \A p \in Productos : StockDevueltoHasta(id, k)[p].stock <= MaxStock
    /\ producto' = StockDevueltoHasta(id, k)
    /\ resultado' = Res("cancelar", "Error", id, k)
    /\ UNCHANGED <<carrito, pedidos, detalles, hilo, categorias, subcategorias>>

\* the lines of order id in the order of their rows
RECURSIVE LineasEnOrden(_, _)
LineasEnOrden(dets, I) ==
    IF I = {} THEN <<>>
    ELSE LET i == CHOOSE i \in I : \A j \in I : i <= j
         IN <<dets[i]>> \o LineasEnOrden(dets, I \ {i})

\* const ped = await pedido.findByPk(id): the instance on which caller h will
\* call cancelar
cancelarCargar(h, id) ==
    /\ hilo[h].pc = "libre"
    /\ id \in 1..Len(pedidos)
    /\ hilo' = [hilo EXCEPT ![h] = [Libre EXCEPT !.pc = "cargado", !.op = "cancelar",
                                                 !.cant = id, !.estado = pedidos[id].estado]]
    /\ UNCHANGED <<producto, carrito, pedidos, detalles, resultado, categorias, subcategorias>>

\* cancelar up to the end of its first await: the test of puedeSerCancelado on
\* the instance and the findAll of the lines
cancelarComprobar(h) ==
    /\ hilo[h].pc = "cargado"
    /\ hilo[h].op = "cancelar"
    /\ hilo' = [hilo EXCEPT ![h] =
                  IF ~puedeSerCancelado(@.estado)
                  THEN [@ EXCEPT !.pc = "fin", !.res = "InvalidState"]
                  ELSE [@ EXCEPT !.pc = "devolviendo",
                                 !.items = LineasEnOrden(detalles,
                                                          LineasDe(detalles, hilo[h].cant))]]
    /\ UNCHANGED <<producto, carrito, pedidos, detalles, resultado, categorias, subcategorias>>

\* one turn of the loop of cancelar: findByPk of the line's product and, when it
\* exists, aumentarStock of the line's quantity
cancelarDevolver(h) ==
    /\ hilo[h].pc = "devolviendo"
    /\ hilo[h].items # <<>>
    /\ LET d == Head(hilo[h].items) IN
        producto' = [producto EXCEPT ![d.productoId] =
                        IF @.existe
                        THEN [@ EXCEPT !.stock = aumentarStockResultado(@, d.cantidad)]
                        ELSE @]
    /\ hilo' = [hilo EXCEPT ![h].items = Tail(@)]
    /\ UNCHANGED <<carrito, pedidos, detalles, resultado, categorias, subcategorias>>

\* after the loop: this.estado = "cancelado" and await this.save()
cancelarGuardar(h) ==
    /\ hilo[h].pc = "devolviendo"
    /\ hilo[h].items = <<>>
    /\ pedidos' = [pedidos EXCEPT ![hilo[h].cant].estado = "cancelado"]
    /\ hilo' = [hilo EXCEPT ![h].pc = "fin", ![h].res = "ok"]
    /\ UNCHANGED <<producto, carrito, detalles, resultado, categorias, subcategorias>>


(***************************************************************************)
(* Specifications                                                          *)
(***************************************************************************)
\* the catalogue the shop sells from: the categories "tv" and "pc", active, each
\* with one active subcategory
CategoriasIniciales ==
    <<[nombre |-> "tv", activo |-> TRUE], [nombre |-> "pc", activo |-> TRUE]>>

SubcategoriasIniciales ==
    <<[nombre |-> "tv", categoriaId |-> 1, activo |-> TRUE],
      [nombre |-> "pc", categoriaId |-> 2, activo |-> TRUE]>>

\* the shop before its first product: the catalogue is there, the other tables
\* are empty
Init ==
    /\ producto = [p \in Productos |-> NoProducto]
    /\ carrito = {}
    /\ pedidos = <<>>
    /\ detalles = <<>>
    /\ resultado = Res("init", "ok", 0, 0)
    /\ hilo = [h \in Hilos |-> Libre]
    /\ categorias = CategoriasIniciales
    /\ subcategorias = SubcategoriasIniciales

NextStock ==
    \/ \E p \in Productos, s \in Stocks, precio \in Precios : productoCreate(p, s, precio, p, p)
    \/ \E p \in Productos, c \in Cantidades : reducirStock(p, c)
    \/ \E p \in Productos, c \in Cantidades : aumentarStock(p, c)

SpecStock == Init /\ [][NextStock]_vars

\* the stock of the products is moved and asked about
NextHayStock ==
    \/ \E p \in Productos, s \in Stocks : productoCreate(p, s, 1, p, p)
    \/ \E p \in Productos, c \in Cantidades : aumentarStock(p, c)
    \/ \E p \in Productos, s \in Stocks : productoUpdate(p, s, 1)
    \/ \E p \in Productos, c \in 1..(MaxStock + 1) : consultarHayStock(p, c)

SpecHayStock == Init /\ [][NextHayStock]_vars

\* products are deleted, with and without an image, with cart rows and order
\* lines of theirs in the tables
NextBorrarProducto ==
    \/ \E p \in Productos : productoCreate(p, 1, 1, p, p)
    \/ \E p \in Productos : carritoCreate(1, p, 1)
    \/ vaciarCarrito(1)
    \/ pedidoCreate(1)
    \/ \E id \in 1..MaxPedidos : crearDesdeCarrito(id, 1)
    \/ \E p \in Productos, imagen \in BOOLEAN, archivo \in Archivos :
            productoDestroy(p, imagen, archivo)

SpecBorrarProducto == Init /\ [][NextBorrarProducto]_vars

\* the order histories of two users are read while orders are created
NextHistorial ==
    \/ \E u \in Usuarios : pedidoCreateHistorial(u)
    \/ \E u \in Usuarios : obtenerHistorialPorUsuario(u)

SpecHistorial == Init /\ [][NextHistorial]_vars

\* cancellations of one user's orders, some of them interrupted by an error
NextCancelar ==
    \/ \E p \in Productos, s \in Stocks : productoCreate(p, s, 1, p, p)
    \/ \E p \in Productos, c \in Cantidades : carritoCreate(1, p, c)
    \/ pedidoCreate(1)
    \/ \E id \in 1..MaxPedidos : crearDesdeCarrito(id, 1)
    \/ \E id \in 1..MaxPedidos : cancelar(id)
    \/ \E id \in 1..MaxPedidos, k \in 0..MaxDetalles : cancelarInterrumpido(id, k)

SpecCancelar == Init /\ [][NextCancelar]_vars

\* an order of user 1 with a line of each product, the stock of every product
\* s0, and two callers about to cancel it
InitCancelarConc ==
    \E s0 \in Stocks, e \in {"pendiente", "pagado", "enviado"}, c \in [Productos -> Cantidades] :
        /\ \A p \in Productos : s0 + Cardinality(Hilos) * c[p] <= MaxStock
        /\ producto = [p \in Productos |->
                          [existe |-> TRUE, activo |-> TRUE, stock |-> s0, precio |-> 1,
                           categoriaId |-> p, subcategoriaId |-> p]]
        /\ carrito = {}
        /\ pedidos = <<[pedidoNuevo(1, c[1] + c[2]) EXCEPT !.estado = e]>>
        /\ detalles = [p \in Productos |->
                          detalleDe(1, [productoId |-> p, cantidad |-> c[p],
                                        precioUnitario |-> 1])]
        /\ resultado = Res("init", "ok", 1, s0)
        /\ hilo = [h \in Hilos |-> Libre]
        /\ categorias = CategoriasIniciales
        /\ subcategorias = SubcategoriasIniciales

NextCancelarConc ==
    \/ \E h \in Hilos : cancelarCargar(h, 1)
    \/ \E h \in Hilos : cancelarComprobar(h)
    \/ \E h \in Hilos : cancelarDevolver(h)
    \/ \E h \in Hilos : cancelarGuardar(h)

SpecCancelarConc == InitCancelarConc /\ [][NextCancelarConc]_vars

\* the checkout path: catalogue edits, cart, order and its lines
Next ==
    \/ \E p \in Productos, s \in Stocks : productoCreate(p, s, 1, p, p)
    \/ \E p \in Productos, s \in Stocks : productoUpdate(p, s, producto[p].precio)
    \/ \E precio \in Precios : productoUpdate(1, producto[1].stock, precio)
    \/ \E p \in Productos, c \in Cantidades : carritoCreate(1, p, c)
    \/ vaciarCarrito(1)
    \/ pedidoCreate(1)
    \/ \E id \in 1..MaxPedidos : crearDesdeCarrito(id, 1)

Spec == Init /\ [][Next]_vars

\* the life of an order: status changes and cancellation
NextPedido ==
    \/ \E p \in Productos, s \in Stocks : productoCreate(p, s, 1, p, p)
    \/ \E p \in Productos, c \in Cantidades : carritoCreate(1, p, c)
    \/ pedidoCreate(1)
    \/ \E id \in 1..MaxPedidos : crearDesdeCarrito(id, 1)
    \/ \E id \in 1..MaxPedidos, e \in Estados \cup {"otro"} : cambiarEstado(id, e)
    \/ \E id \in 1..MaxPedidos : cancelar(id)

SpecPedido == Init /\ [][NextPedido]_vars

\* the attempts to delete an order, among the other handlers of orders of one
\* product
NextBorrado ==
    \/ \E s \in Stocks : productoCreate(1, s, 1, 1, 1)
    \/ \E c \in Cantidades : carritoCreate(1, 1, c)
    \/ pedidoCreate(1)
    \/ \E id \in 1..MaxPedidos : crearDesdeCarrito(id, 1)
    \/ \E id \in 1..MaxPedidos, e \in Estados : cambiarEstado(id, e)
    \/ \E id \in 1..MaxPedidos : cancelar(id)
    \/ \E id \in 1..MaxPedidos : pedidoDestroy(id)

SpecBorrado == Init /\ [][NextBorrado]_vars

\* the making of the catalogue from empty tables: categories and subcategories
\* are created, categories are switched off and on
InitCatalogo ==
    /\ producto = [p \in Productos |-> NoProducto]
    /\ carrito = {}
    /\ pedidos = <<>>
    /\ detalles = <<>>
    /\ resultado = Res("init", "ok", 0, 0)
    /\ hilo = [h \in Hilos |-> Libre]
    /\ categorias = <<>>
    /\ subcategorias = <<>>

NextCatalogo ==
    \/ \E nombre \in Nombres : crearCategoria(nombre)
    \/ \E nombre \in Nombres, c \in 1..(MaxCategorias + 1) : subcategoriaCreate(nombre, c)
    \/ \E id \in 1..MaxCategorias, k \in 0..MaxSubcategorias, falla \in BOOLEAN :
            toggleCategoria(id, k, falla)

SpecCatalogo == InitCatalogo /\ [][NextCatalogo]_vars

\* the cascades: the catalogue gets a third subcategory and its products, and
\* categories, subcategories and products are switched off and on
NextCascada ==
    \/ \E c \in 1..MaxCategorias : subcategoriaCreate("hd", c)
    \/ \E p \in Productos, c \in 1..MaxCategorias, sub \in 1..MaxSubcategorias :
            productoCreate(p, 1, 1, c, sub)
    \/ \E p \in Productos, activo \in BOOLEAN : productoSetActivo(p, activo)
    \/ \E id \in 1..MaxCategorias, k \in 0..(3 * MaxSubcategorias), falla \in BOOLEAN :
            toggleCategoria(id, k, falla)
    \/ \E id \in 1..MaxSubcategorias, activo \in BOOLEAN, k \in 0..Cardinality(Productos),
            falla \in BOOLEAN : subcategoriaUpdate(id, activo, k, falla)

SpecCascada == Init /\ [][NextCascada]_vars

\* the carts of two users over a catalogue whose prices, stocks and active flags
\* are edited meanwhile
NextCarrito ==
    \/ \E p \in Productos, s \in Stocks \ {0} : productoCreate(p, s, 1, p, p)
    \/ \E s \in Stocks, precio \in Precios : productoUpdate(1, s, precio)
    \/ \E activo \in BOOLEAN : productoSetActivo(2, activo)
    \/ \E u \in Usuarios, p \in Productos, c \in 0..MaxCantidad : carritoCreate(u, p, c)
    \/ \E u \in Usuarios, p \in Productos, c \in 0..(MaxCantidad + 1) :
            actualizarCantidad(u, p, c)
    \/ \E u \in Usuarios : consultarTotalCarrito(u)
    \/ \E u \in Usuarios : vaciarCarrito(u)

SpecCarrito == Init /\ [][NextCarrito]_vars

\* carts emptied while orders and their lines exist
NextVaciar ==
    \/ \E s \in Stocks : productoCreate(1, s, 1, 1, 1)
    \/ \E u \in Usuarios, c \in Cantidades : carritoCreate(u, 1, c)
    \/ \E u \in Usuarios : pedidoCreate(u)
    \/ \E id \in 1..MaxPedidos, u \in Usuarios : crearDesdeCarrito(id, u)
    \/ \E u \in Usuarios : vaciarCarrito(u)

SpecVaciar == Init /\ [][NextVaciar]_vars

\* order lines created from the cart and edited afterwards
NextDetalle ==
    \/ \E p \in Productos, s \in Stocks \ {0} : productoCreate(p, s, 1, p, p)
    \/ \E p \in Productos, c \in Cantidades : carritoCreate(1, p, c)
    \/ pedidoCreate(1)
    \/ \E id \in 1..MaxPedidos : crearDesdeCarrito(id, 1)
    \/ \E i \in 1..MaxDetalles, c \in 0..MaxCantidad, precio \in Precios :
            detalleUpdate(i, c, precio)

SpecDetalle == Init /\ [][NextDetalle]_vars

\* the creation of products under every kind of parent: categories and
\* subcategories that are missing, switched off, or of another category
NextProducto ==
    \/ \E c \in 1..MaxCategorias : subcategoriaCreate("hd", c)
    \/ \E p \in Productos, c \in 1..(MaxCategorias + 1), sub \in 1..(MaxSubcategorias + 1) :
            productoCreate(p, 1, 1, c, sub)
    \/ \E id \in 1..MaxCategorias, k \in 0..(3 * MaxSubcategorias), falla \in BOOLEAN :
            toggleCategoria(id, k, falla)
    \/ \E id \in 1..MaxSubcategorias, k \in 0..Cardinality(Productos) :
            subcategoriaUpdate(id, TRUE, k, FALSE)

SpecProducto == Init /\ [][NextProducto]_vars

(***************************************************************************)
(* Concurrent callers.  Each caller runs one handler, split at its awaits: *)
(* reducirStock is findByPk (cargar), the synchronous test and             *)
(* subtraction (comprobar) and save() (guardar); crearDesdeCarrito is the   *)
(* read of the cart rows (leerCarrito) and one detallePedido.create per    *)
(* row (crearDetalle).  Caller h checks out the cart of user h into order  *)
(* h.  resultado keeps the product and its stock at the start.             *)
(***************************************************************************)
\* the units the callers in H asked for
RECURSIVE SumaHilos(_)
SumaHilos(H) ==
    IF H = {} THEN 0
    ELSE LET h == CHOOSE h \in H : TRUE IN hilo[h].cant + SumaHilos(H \ {h})

InitConc ==
    \E s0 \in Stocks, c \in [Usuarios -> Cantidades] :
        /\ \A u \in Usuarios : HayStock(s0, c[u])
        /\ producto = [p \in Productos |->
                          IF p = 1
                          THEN [existe |-> TRUE, activo |-> TRUE, stock |-> s0, precio |-> 1,
                                categoriaId |-> 1, subcategoriaId |-> 1]
                          ELSE NoProducto]
        /\ carrito = {[usuarioId |-> u, productoId |-> 1, cantidad |-> c[u],
                       precioUnitario |-> 1] : u \in Usuarios}
        /\ pedidos = [u \in Usuarios |-> pedidoNuevo(u, calcularSubtotal(1, c[u]))]
        /\ detalles = <<>>
        /\ resultado = Res("init", "ok", 1, s0)
        /\ hilo = [h \in Hilos |-> Libre]
        /\ categorias = CategoriasIniciales
        /\ subcategorias = SubcategoriasIniciales

\* const prod = await producto.findByPk(1), then prod.reducirStock(cantidad)
cargar(h, cantidad) ==
    /\ hilo[h].pc = "libre"
    /\ hilo' = [hilo EXCEPT ![h] = [Libre EXCEPT !.pc = "cargado", !.op = "reducirStock",
                                                 !.cant = cantidad, !.stock = producto[1].stock]]
    /\ UNCHANGED <<producto, carrito, pedidos, detalles, resultado, categorias, subcategorias>>

\* reducirStock up to its await: the test of line 268 and the subtraction of line 271
comprobar(h) ==
    /\ hilo[h].pc = "cargado"
    /\ hilo' = [hilo EXCEPT ![h] =
                  IF HayStock(@.stock, @.cant)
                  THEN [@ EXCEPT !.pc = "fin", !.res = "InsufficientStock"]
                  ELSE [@ EXCEPT !.pc = "guardar", !.stock = @ - hilo[h].cant]]
    /\ UNCHANGED <<producto, carrito, pedidos, detalles, resultado, categorias, subcategorias>>

\* await this.save(): validation, then UPDATE productos SET stock = <the instance's stock>
guardar(h) ==
    /\ hilo[h].pc = "guardar"
    /\ IF StockValido(hilo[h].stock)
       THEN /\ producto' = [producto EXCEPT ![1].stock = hilo[h].stock]
            /\ hilo' = [hilo EXCEPT ![h].pc = "fin", ![h].res = "ok"]
       ELSE /\ hilo' = [hilo EXCEPT ![h].pc = "fin", ![h].res = "ValidationError"]
            /\ UNCHANGED producto
    /\ UNCHANGED <<carrito, pedidos, detalles, resultado, categorias, subcategorias>>

\* the caller of crearDesdeCarrito reads the cart rows of user h
leerCarrito(h) ==
    /\ hilo[h].pc = "libre"
    /\ hilo' = [hilo EXCEPT ![h] =
                  [Libre EXCEPT !.pc = "creando", !.op = "crearDesdeCarrito",
                                !.cant = SumaCantidadItems(ItemsDe(h), 1),
                                !.items = EnOrden(ItemsDe(h))]]
    /\ UNCHANGED <<producto, carrito, pedidos, detalles, resultado, categorias, subcategorias>>

\* one turn of the loop of crearDesdeCarrito; after the last item it returns
crearDetalle(h) ==
    /\ hilo[h].pc = "creando"
    /\ IF hilo[h].items = <<>>
       THEN /\ hilo' = [hilo EXCEPT ![h].pc = "fin", ![h].res = "ok"]
            /\ UNCHANGED detalles
       ELSE /\ detalles' = Append(detalles, detalleDe(h, Head(hilo[h].items)))
            /\ hilo' = [hilo EXCEPT ![h].items = Tail(@)]
    /\ UNCHANGED <<producto, carrito, pedidos, resultado, categorias, subcategorias>>

NextConc ==
    \/ \E h \in Hilos, c \in Cantidades : cargar(h, c)
    \/ \E h \in Hilos : comprobar(h)
    \/ \E h \in Hilos : guardar(h)
    \/ \E h \in Hilos : leerCarrito(h)
    \/ \E h \in Hilos : crearDetalle(h)

SpecConc == InitConc /\ [][NextConc]_vars

(***************************************************************************)
(* Concurrent callers of Subcategoria.create and producto.create, split    *)
(* between the hook beforeCreate, which reads the parents, and the INSERT. *)
(***************************************************************************)
\* Subcategoria.create up to the end of its hook beforeCreate: validation, then
\* Categoria.findByPk and the two tests of the hook
subcategoriaCreateHook(h, nombre, categoriaId) ==
    /\ hilo[h].pc = "libre"
    /\ LET r == IF ~NombreValido(nombre) THEN "ValidationError"
                ELSE subcategoriaBeforeCreate(categoriaId)
       IN hilo' = [hilo EXCEPT ![h] =
                     [Libre EXCEPT !.pc = IF r = "ok" THEN "insertar" ELSE "fin",
                                   !.op = "subcategoriaCreate", !.nombre = nombre,
                                   !.cant = categoriaId, !.res = IF r = "ok" THEN "-" ELSE r]]
    /\ UNCHANGED <<producto, carrito, pedidos, detalles, resultado, categorias, subcategorias>>

\* the INSERT of Subcategoria.create under the unique constraints
subcategoriaCreateInsert(h) ==
    /\ hilo[h].pc = "insertar"
    /\ hilo[h].op = "subcategoriaCreate"
    /\ Len(subcategorias) < MaxSubcategorias
    /\ LET libre == /\ NombreSubcategoriaLibre(hilo[h].nombre)
                    /\ NombreCategoriaUnique(hilo[h].nombre, hilo[h].cant)
       IN /\ subcategorias' = IF libre
                              THEN Append(subcategorias, [nombre |-> hilo[h].nombre,
                                                          categoriaId |-> hilo[h].cant,
                                                          activo |-> TRUE])
                              ELSE subcategorias
          /\ hilo' = [hilo EXCEPT ![h].pc = "fin",
                                  ![h].res = IF libre THEN "ok" ELSE "DuplicateName"]
    /\ UNCHANGED <<producto, carrito, pedidos, detalles, resultado, categorias>>

\* producto.create up to the end of its hook beforeCreate: the findByPk of the
\* category and of the subcategory and the tests on them; items holds the new
\* row's id, categoriaId and subcategoriaId
productoCreateHook(h, p, categoriaId, subcategoriaId) ==
    /\ hilo[h].pc = "libre"
    /\ ~producto[p].existe
    /\ LET r == productoCreateResultado(p, categoriaId, subcategoriaId)
           pasa == r \in {"ok", "UniqueConstraintError"}
       IN hilo' = [hilo EXCEPT ![h] =
                     [Libre EXCEPT !.pc = IF pasa THEN "insertar" ELSE "fin",
                                   !.op = "productoCreate",
                                   !.items = <<p, categoriaId, subcategoriaId>>,
                                   !.res = IF pasa THEN "-" ELSE r]]
    /\ UNCHANGED <<producto, carrito, pedidos, detalles, resultado, categorias, subcategorias>>

\* the INSERT of producto.create under the unique index on categoriaId
productoCreateInsert(h) ==
    /\ hilo[h].pc = "insertar"
    /\ hilo[h].op = "productoCreate"
    /\ LET p == hilo[h].items[1]
           libre == /\ ~producto[p].existe
                    /\ \A q \in Productos :
                          ~(producto[q].existe /\ producto[q].categoriaId = hilo[h].items[2])
       IN /\ producto' = IF libre
                         THEN [producto EXCEPT ![p] =
                                 [existe |-> TRUE, activo |-> TRUE, stock |-> 1, precio |-> 1,
                                  categoriaId |-> hilo[h].items[2],
                                  subcategoriaId |-> hilo[h].items[3]]]
                         ELSE producto
          /\ hilo' = [hilo EXCEPT ![h].pc = "fin",
                                  ![h].res = IF libre THEN "ok" ELSE "UniqueConstraintError"]
    /\ UNCHANGED <<carrito, pedidos, detalles, resultado, categorias, subcategorias>>

\* creations of subcategories and products by two callers while the
\* administrator switches categories off and on, every cascade running to its end
NextCrearConc ==
    \/ \E h \in Hilos, c \in 1..MaxCategorias : subcategoriaCreateHook(h, "hd", c)
    \/ \E h \in Hilos : subcategoriaCreateInsert(h)
    \/ \E h \in Hilos, p \in Productos, c \in 1..MaxCategorias, sub \in 1..MaxSubcategorias :
            productoCreateHook(h, p, c, sub)
    \/ \E h \in Hilos : productoCreateInsert(h)
    \/ \E id \in 1..MaxCategorias, k \in 0..(3 * MaxSubcategorias) :
            toggleCategoria(id, k, FALSE)

SpecCrearConc == Init /\ [][NextCrearConc]_vars

(***************************************************************************)
(* Concurrent callers of crearCategoria, split at its awaits: the          *)
(* findOne of the duplicate test (crearCategoriaBuscar) and                *)
(* categoria.create (crearCategoriaCrear).  A caller that has finished     *)
(* may call again.                                                         *)
(***************************************************************************)
\* const categoriaExistente = await categoria.findOne(...) and the 400 it may return
crearCategoriaBuscar(h, nombre) ==
    /\ hilo[h].pc \in {"libre", "fin"}
    /\ hilo' = [hilo EXCEPT ![h] =
                  IF categoriaExistente(nombre)
                  THEN [Libre EXCEPT !.pc = "fin", !.op = "crearCategoria",
                                     !.nombre = nombre, !.res = "DuplicateName"]
                  ELSE [Libre EXCEPT !.pc = "crear", !.op = "crearCategoria",
                                     !.nombre = nombre]]
    /\ UNCHANGED <<producto, carrito, pedidos, detalles, resultado, categorias, subcategorias>>

\* await categoria.create({nombre, ...}) and the response
crearCategoriaCrear(h) ==
    /\ hilo[h].pc = "crear"
    /\ Len(categorias) < MaxCategorias
    /\ LET r == categoriaCreateResultado(hilo[h].nombre) IN
        /\ categorias' = IF r = "ok"
                         THEN Append(categorias, [nombre |-> hilo[h].nombre, activo |-> TRUE])
                         ELSE categorias
        /\ hilo' = [hilo EXCEPT ![h].pc = "fin", ![h].res = r]
    /\ UNCHANGED <<producto, carrito, pedidos, detalles, resultado, subcategorias>>

NextCatConc ==
    \/ \E h \in Hilos, nombre \in Nombres : crearCategoriaBuscar(h, nombre)
    \/ \E h \in Hilos : crearCategoriaCrear(h)
    \/ \E id \in 1..MaxCategorias, nombre \in Nombres : actualizarCategoria(id, nombre)

SpecCatConc == InitCatalogo /\ [][NextCatConc]_vars

(***************************************************************************)
(* Inventory ledger                                                        *)
(***************************************************************************)

\* C1: after any sequence of reducirStock and aumentarStock calls with positive
\* quantities, the stored stock of every product is >= 0.
C1_StockNoNegativo == \A p \in Productos : producto[p].existe => producto[p].stock >= 0

\* reducirStock ran with a quantity above the stock, the case that subtracts
C1_Witness ==
    /\ resultado.op = "reducirStock"
    /\ resultado.arg > producto[resultado.id].stock
    /\ \E p \in Productos : producto[p].existe /\ producto[p].stock > 0

\* C2: reducirStock(q) fails with InsufficientStock and leaves the stock as it was
\* when q > stock, and otherwise succeeds and stores stock - q.
C2_Claim ==
    [][resultado'.op = "reducirStock" =>
        LET p == resultado'.id
            q == resultado'.arg
        IN IF q > producto[p].stock
           THEN resultado'.res = "InsufficientStock" /\ producto'[p].stock = producto[p].stock
           ELSE resultado'.res = "ok" /\ producto'[p].stock = producto[p].stock - q]_vars

\* C3: when two decrements of the same product (reducirStock calls, checkouts) have
\* run concurrently to their end, they did not both succeed with quantities that
\* sum to more than the stock, and the stock is the initial stock minus the
\* quantities of those that succeeded, and >= 0.
C3_Claim ==
    (\A h \in Hilos : hilo[h].pc = "fin") =>
        LET exito == {h \in Hilos : hilo[h].res = "ok"}
        IN /\ producto[1].stock = resultado.arg - SumaHilos(exito)
           /\ producto[1].stock >= 0
           /\ SumaHilos(exito) <= resultado.arg

(***************************************************************************)
(* Checkout                                                                *)
(***************************************************************************)

\* C4: when some cart row of the user asks for more than the stock of its product,
\* crearDesdeCarrito leaves the orders, the order lines, every stock and the cart
\* as they were.
C4_Claim ==
    [][(/\ resultado'.op = "crearDesdeCarrito"
        /\ \E it \in ItemsDe(resultado'.arg) : it.cantidad > producto[it.productoId].stock)
       => /\ pedidos' = pedidos
          /\ detalles' = detalles
          /\ producto' = producto
          /\ carrito' = carrito]_vars

\* the quantity of product p held by the lines of the orders that are not cancelled
Reservado(peds, dets, p) ==
    SumaCantidad(dets, {i \in 1..Len(dets) : peds[dets[i].pedidoId].estado # "cancelado"}, p)

\* C5: stock and order lines move together: every step of the order engine takes
\* from (gives back to) the stock of each product exactly the quantity by which
\* the lines of the non-cancelled orders grow (shrink), so the units taken and not
\* given back always equal the quantity those lines hold.
C5_Claim ==
    [][resultado'.op \in {"pedidoCreate", "crearDesdeCarrito", "cambiarEstado", "cancelar"}
       => \A p \in Productos :
            producto[p].stock - producto'[p].stock
                = Reservado(pedidos', detalles', p) - Reservado(pedidos, detalles, p)]_vars

\* C6: a successful crearDesdeCarrito for a non-empty cart adds one line per cart
\* row, with the row's product, quantity and snapshot price, all of the order; the
\* order's total is the sum of the lines' unitPrice*quantity; the stock of each
\* product goes down by its row's quantity; the user's cart ends empty.
C6_Claim ==
    [][(/\ resultado'.op = "crearDesdeCarrito"
        /\ resultado'.res = "ok"
        /\ ItemsDe(resultado'.arg) # {})
       => LET id == resultado'.id
              items == ItemsDe(resultado'.arg)
              nuevas == (Len(detalles) + 1)..Len(detalles')
          IN /\ Len(detalles') = Len(detalles) + Cardinality(items)
             /\ \A it \in items : \E i \in nuevas :
                    /\ detalles'[i].pedidoId = id
                    /\ detalles'[i].productoId = it.productoId
                    /\ detalles'[i].cantidad = it.cantidad
                    /\ detalles'[i].precioUnitario = it.precioUnitario
             /\ pedidos'[id].total = SumaSubtotales(items)
             /\ \A p \in Productos :
                    producto'[p].stock = producto[p].stock - SumaCantidadItems(items, p)
             /\ {it \in carrito' : it.usuarioId = resultado'.arg} = {}]_vars

\* C7: crearDesdeCarrito for a user without cart rows fails with EmptyCart and
\* changes no order, no order line and no stock.
C7_Claim ==
    [][(/\ resultado'.op = "crearDesdeCarrito"
        /\ ItemsDe(resultado'.arg) = {})
       => /\ resultado'.res = "EmptyCart"
          /\ pedidos' = pedidos
          /\ detalles' = detalles
          /\ producto' = producto]_vars

(***************************************************************************)
(* Order status                                                            *)
(***************************************************************************)
Transiciones ==
    {<<"pendiente", "pagado">>, <<"pagado", "enviado">>, <<"enviado", "entregado">>,
     <<"pendiente", "cancelado">>, <<"pagado", "cancelado">>}

\* C8: cambiarEstado(s) on an order whose (status, s) is not one of the five
\* transitions fails with InvalidState and leaves the status as it was.
C8_Claim ==
    [][(/\ resultado'.op = "cambiarEstado"
        /\ <<pedidos[resultado'.id].estado, resultado'.arg>> \notin Transiciones)
       => /\ resultado'.res = "InvalidState"
          /\ pedidos'[resultado'.id].estado = pedidos[resultado'.id].estado]_vars

\* C9: an order that is entregado or cancelado keeps that status in every step.
C9_Claim ==
    [][\A id \in 1..Len(pedidos) :
          pedidos[id].estado \in {"entregado", "cancelado"}
              => pedidos'[id].estado = pedidos[id].estado]_vars

\* C10: cancelar on a pendiente or pagado order succeeds, adds to the stock of
\* each product the quantities of the order's lines of that product (each line
\* once, nothing for other products) and leaves the order cancelado.
C10_CancelarDevuelve ==
    [][(/\ resultado'.op = "cancelar"
        /\ pedidos[resultado'.id].estado \in {"pendiente", "pagado"})
       => LET id == resultado'.id
          IN /\ resultado'.res = "ok"
             /\ pedidos'[id].estado = "cancelado"
             /\ \A p \in Productos :
                    producto'[p].stock = producto[p].stock
                        + SumaCantidad(detalles, LineasDe(detalles, id), p)]_vars

\* a cancellation that gave back a line of two units and left the other product alone
C10_Witness ==
    /\ resultado.op = "cancelar"
    /\ resultado.res = "ok"
    /\ pedidos[resultado.id].estado = "cancelado"
    /\ \E i \in LineasDe(detalles, resultado.id) : detalles[i].cantidad = 2
    /\ \E p \in Productos :
          producto[p].existe /\ SumaCantidad(detalles, LineasDe(detalles, resultado.id), p) = 0

\* C11: cancelar on an order that is enviado, entregado or cancelado fails with
\* InvalidState and leaves the order's status and the stock of every product as
\* they were.
C11_CancelarRechaza ==
    [][(/\ resultado'.op = "cancelar"
        /\ pedidos[resultado'.id].estado \in {"enviado", "entregado", "cancelado"})
       => /\ resultado'.res = "InvalidState"
          /\ pedidos'[resultado'.id].estado = pedidos[resultado'.id].estado
          /\ \A p \in Productos : producto'[p].stock = producto[p].stock]_vars

\* cancelar was refused on a shipped order that has a line
C11_Witness ==
    /\ resultado.op = "cancelar"
    /\ resultado.res = "InvalidState"
    /\ pedidos[resultado.id].estado = "enviado"
    /\ LineasDe(detalles, resultado.id) # {}

\* C12: a successful cambiarEstado to pagado leaves fechaPago set on the stored
\* order, to enviado leaves fechaEnvio set, to entregado leaves fechaEntrega set,
\* and a fechaEnvio or fechaEntrega that was set is not written again.
C12_Claim ==
    [][(/\ resultado'.op = "cambiarEstado"
        /\ resultado'.res = "ok")
       => LET antes == pedidos[resultado'.id]
              ahora == pedidos'[resultado'.id]
          IN /\ resultado'.arg = "pagado" => ahora.fechaPago
             /\ resultado'.arg = "enviado" => ahora.fechaEnvio
             /\ resultado'.arg = "entregado" => ahora.fechaEntrega
             /\ antes.fechaEnvio => ahora.fechaEnvio
             /\ antes.fechaEntrega => ahora.fechaEntrega]_vars

\* C13: orders are never removed: destroy fails with OperationNotAllowed and
\* leaves the orders and their lines in place, and in every step each order stays
\* (of the same user) and each line stays as it was, whatever the handler.
C13_PedidosNoSeBorran ==
    [][/\ Len(pedidos') >= Len(pedidos)
       /\ \A id \in 1..Len(pedidos) : pedidos'[id].usuarioId = pedidos[id].usuarioId
       /\ Len(detalles') >= Len(detalles)
       /\ \A i \in 1..Len(detalles) : detalles'[i] = detalles[i]
       /\ resultado'.op = "pedidoDestroy"
            => /\ resultado'.res = "OperationNotAllowed"
               /\ pedidos' = pedidos
               /\ detalles' = detalles]_vars

\* destroy was refused on an order that has lines, and the order has been
\* cancelled before
C13_Witness ==
    /\ resultado.op = "pedidoDestroy"
    /\ resultado.res = "OperationNotAllowed"
    /\ pedidos[resultado.id].estado = "cancelado"
    /\ LineasDe(detalles, resultado.id) # {}

(***************************************************************************)
(* Catalogue                                                               *)
(***************************************************************************)

\* C14: after toggleCategoria has switched an active category off without error,
\* every subcategory of the category and every product of the category (of any of
\* those subcategories) is inactive, whatever they were before, and the
\* subcategories and products of other categories are as they were.
C14_CascadaCategoria ==
    [][(/\ resultado'.op = "toggleCategoria"
        /\ resultado'.res = "ok"
        /\ categorias[resultado'.id].activo)
       => LET id == resultado'.id IN
          /\ ~categorias'[id].activo
          /\ \A s \in 1..Len(subcategorias) :
                IF subcategorias[s].categoriaId = id
                THEN ~subcategorias'[s].activo
                ELSE subcategorias'[s] = subcategorias[s]
          /\ \A p \in Productos :
                IF /\ producto[p].existe
                   /\ \/ producto[p].categoriaId = id
                      \/ producto[p].subcategoriaId \in SubcategoriasDe(id)
                THEN ~producto'[p].activo
                ELSE producto'[p] = producto[p]]_vars

\* a category with two subcategories and a product was switched off, and the
\* other category keeps an active subcategory and an active product
C14_Witness ==
    /\ resultado.op = "toggleCategoria"
    /\ resultado.res = "ok"
    /\ ~categorias[resultado.id].activo
    /\ Cardinality(SubcategoriasDe(resultado.id)) >= 2
    /\ ProductosDeCategoria(resultado.id) # {}
    /\ \E s \in 1..Len(subcategorias) :
          subcategorias[s].categoriaId # resultado.id /\ subcategorias[s].activo
    /\ \E p \in Productos :
          producto[p].existe /\ producto[p].categoriaId # resultado.id /\ producto[p].activo

\* C15: switching on never cascades: toggleCategoria on an inactive category
\* changes only that category's activo, and subcategoria.update({activo: true})
\* changes only that subcategory's activo.
C15_ReactivarNoCascadea ==
    [][/\ (resultado'.op = "toggleCategoria" /\ ~categorias[resultado'.id].activo)
          => /\ categorias' = [categorias EXCEPT ![resultado'.id].activo = TRUE]
             /\ subcategorias' = subcategorias
             /\ producto' = producto
       /\ (resultado'.op = "subcategoriaUpdate" /\ ~subcategorias[resultado'.id].activo)
          => /\ subcategorias' = [subcategorias EXCEPT ![resultado'.id].activo = TRUE]
             /\ categorias' = categorias
             /\ producto' = producto]_vars

\* a category was switched on again while one of its subcategories is active, another
\* inactive, and its product inactive
C15_Witness ==
    /\ resultado.op = "toggleCategoria"
    /\ resultado.res = "ok"
    /\ categorias[resultado.id].activo
    /\ \E s \in SubcategoriasDe(resultado.id) : subcategorias[s].activo
    /\ \E s \in SubcategoriasDe(resultado.id) : ~subcategorias[s].activo
    /\ \E p \in ProductosDeCategoria(resultado.id) : ~producto[p].activo

\* C16: a toggleCategoria whose cascade fails leaves the stored state exactly as
\* it was before the call: the category still active, no subcategory and no
\* product switched off.
C16_Claim ==
    [][(resultado'.op = "toggleCategoria" /\ resultado'.res # "ok")
       => /\ categorias' = categorias
          /\ subcategorias' = subcategorias
          /\ producto' = producto]_vars

\* C17: after subcategoria.update({activo: false}) has succeeded on an active
\* subcategory, every product of the subcategory is inactive, and the products of
\* other subcategories, the other subcategories and the categories are as they
\* were.
C17_CascadaSubcategoria ==
    [][(/\ resultado'.op = "subcategoriaUpdate"
        /\ resultado'.res = "ok"
        /\ subcategorias[resultado'.id].activo)
       => LET id == resultado'.id IN
          /\ subcategorias' = [subcategorias EXCEPT ![id].activo = FALSE]
          /\ categorias' = categorias
          /\ \A p \in Productos :
                IF producto[p].existe /\ producto[p].subcategoriaId = id
                THEN ~producto'[p].activo
                ELSE producto'[p] = producto[p]]_vars

\* a subcategory with a product was switched off, its category is active and a
\* product of another subcategory is active
C17_Witness ==
    /\ resultado.op = "subcategoriaUpdate"
    /\ resultado.res = "ok"
    /\ ~subcategorias[resultado.id].activo
    /\ categorias[subcategorias[resultado.id].categoriaId].activo
    /\ ProductosDeSubcategoria(resultado.id) # {}
    /\ \E p \in Productos :
          producto[p].existe /\ producto[p].subcategoriaId # resultado.id /\ producto[p].activo

\* C18: Subcategoria.create under an inactive category fails with InactiveParent
\* and under a categoriaId that is no category with NotFound, whatever the name,
\* and creates no subcategory.
C18_Claim ==
    [][resultado'.op = "subcategoriaCreate" =>
        LET c == resultado'.id IN
        /\ c \notin 1..Len(categorias)
              => resultado'.res = "NotFound" /\ subcategorias' = subcategorias
        /\ (c \in 1..Len(categorias) /\ ~categorias[c].activo)
              => resultado'.res = "InactiveParent" /\ subcategorias' = subcategorias]_vars

\* C18 as the code has it: under an inactive or a missing category no subcategory
\* is created; the error is InactiveParent or NotFound when the name validates
\* (2 to 100 characters), and ValidationError when it does not, because the
\* fields are validated before the hook runs.
C18_PadreInactivo ==
    [][resultado'.op = "subcategoriaCreate" =>
        LET c == resultado'.id
            nombre == resultado'.arg
        IN
        /\ c \notin 1..Len(categorias)
              => /\ subcategorias' = subcategorias
                 /\ resultado'.res = IF NombreValido(nombre) THEN "NotFound"
                                     ELSE "ValidationError"
        /\ (c \in 1..Len(categorias) /\ ~categorias[c].activo)
              => /\ subcategorias' = subcategorias
                 /\ resultado'.res = IF NombreValido(nombre) THEN "InactiveParent"
                                     ELSE "ValidationError"]_vars

\* a create was refused under a category that has a subcategory and was
\* switched off afterwards
C18_Witness ==
    /\ resultado.op = "subcategoriaCreate"
    /\ resultado.res = "InactiveParent"
    /\ resultado.id \in 1..Len(categorias)
    /\ ~categorias[resultado.id].activo
    /\ SubcategoriasDe(resultado.id) # {}

\* C19: subcategory names are unique per category, not globally: under an active
\* category and with a valid name, Subcategoria.create fails with DuplicateName
\* exactly when a subcategory with the same (nombre, categoriaId) exists, and
\* succeeds when the name is used only in other categories; no two subcategories
\* ever share a (nombre, categoriaId) pair.
C19_Claim ==
    [][/\ \A s, t \in 1..Len(subcategorias') :
            (/\ subcategorias'[s].nombre = subcategorias'[t].nombre
             /\ subcategorias'[s].categoriaId = subcategorias'[t].categoriaId) => s = t
       /\ (/\ resultado'.op = "subcategoriaCreate"
           /\ resultado'.id \in 1..Len(categorias)
           /\ categorias[resultado'.id].activo
           /\ NombreValido(resultado'.arg))
          => IF \E s \in 1..Len(subcategorias) :
                    /\ subcategorias[s].nombre = resultado'.arg
                    /\ subcategorias[s].categoriaId = resultado'.id
             THEN resultado'.res = "DuplicateName" /\ subcategorias' = subcategorias
             ELSE /\ resultado'.res = "ok"
                  /\ subcategorias' = Append(subcategorias,
                                             [nombre |-> resultado'.arg,
                                              categoriaId |-> resultado'.id,
                                              activo |-> TRUE])]_vars

\* no two categories have the same name
NombresDeCategoriaUnicos(cats) ==
    \A c, d \in 1..Len(cats) : cats[c].nombre = cats[d].nombre => c = d

\* C20: no two categories ever have the same name: a crearCategoria that finds the
\* name fails with DuplicateName and creates nothing, a crearCategoria whose name
\* was inserted by a concurrent call between its test and its create creates
\* nothing either, and renaming a category to another category's name is rejected.
C20_NombreUnico ==
    [][/\ NombresDeCategoriaUnicos(categorias')
       /\ \A h \in Hilos :
            (hilo[h].pc # "crear" /\ hilo'[h] # hilo[h] /\ categoriaExistente(hilo'[h].nombre))
               => /\ hilo'[h].pc = "fin"
                  /\ hilo'[h].res = "DuplicateName"
                  /\ categorias' = categorias
       /\ \A h \in Hilos :
            (hilo[h].pc = "crear" /\ hilo'[h] # hilo[h] /\ categoriaExistente(hilo[h].nombre))
               => /\ hilo'[h].res # "ok"
                  /\ categorias' = categorias
       /\ (/\ resultado'.op = "actualizarCategoria"
           /\ hilo' = hilo
           /\ \E c \in 1..Len(categorias) :
                 c # resultado'.id /\ categorias[c].nombre = resultado'.arg)
          => /\ resultado'.res # "ok"
             /\ categorias' = categorias]_vars

\* two concurrent crearCategoria calls with the same name both passed the test;
\* one created the category, the other was refused by the unique constraint
C20_Witness ==
    /\ hilo[1].pc = "fin" /\ hilo[2].pc = "fin"
    /\ hilo[1].nombre = hilo[2].nombre
    /\ hilo[1].res = "ok"
    /\ hilo[2].res = "UniqueConstraintError"
    /\ NombresDeCategoriaUnicos(categorias)

\* the parents of a product row agree: its subcategory is a row of its category
PadresCoinciden ==
    \A p \in Productos :
        producto[p].existe =>
            /\ producto[p].subcategoriaId \in 1..Len(subcategorias)
            /\ subcategorias[producto[p].subcategoriaId].categoriaId = producto[p].categoriaId

FilasDe(cart, u, p) == {it \in cart : it.usuarioId = u /\ it.productoId = p}

\* C22: Carrito.create fails with NotFound when the product does not exist, with
\* InactiveProduct when it is inactive and with InsufficientStock when the
\* quantity is above its stock, the cart unchanged each time; when the product
\* exists, is active and the quantity is within its stock, the item is stored.
C22_Claim ==
    [][\A u \in Usuarios, p \in Productos, c \in 1..MaxCantidad :
        carritoCreate(u, p, c) =>
            /\ ~producto[p].existe
                  => resultado'.res = "NotFound" /\ carrito' = carrito
            /\ (producto[p].existe /\ ~producto[p].activo)
                  => resultado'.res = "InactiveProduct" /\ carrito' = carrito
            /\ (producto[p].existe /\ producto[p].activo /\ c > producto[p].stock)
                  => resultado'.res = "InsufficientStock" /\ carrito' = carrito
            /\ (producto[p].existe /\ producto[p].activo /\ c <= producto[p].stock)
                  => /\ resultado'.res = "ok"
                     /\ \E it \in FilasDe(carrito', u, p) : it.cantidad = c]_vars

\* C23: when the cart has a row for (usuarioId, productoId), adding the product
\* again updates that row's quantity and neither fails nor inserts a second row;
\* no state has two rows for one pair.
C23_Claim ==
    /\ [](\A u \in Usuarios, p \in Productos : Cardinality(FilasDe(carrito, u, p)) <= 1)
    /\ [][\A u \in Usuarios, p \in Productos, c \in 1..MaxCantidad :
            (/\ carritoCreate(u, p, c)
             /\ FilasDe(carrito, u, p) # {}
             /\ producto[p].existe /\ producto[p].activo /\ c <= producto[p].stock)
            => /\ resultado'.res = "ok"
               /\ Cardinality(FilasDe(carrito', u, p)) = 1
               /\ \A it \in FilasDe(carrito', u, p) : it.cantidad = c]_vars

\* C24: a cart row's precioUnitario is the product's price when the row is
\* inserted, and no later step changes it: not an edit of the product's price,
\* not actualizarCantidad on the row.
C24_PrecioCongelado ==
    [][/\ \A u \in Usuarios, p \in Productos :
            \A it \in FilasDe(carrito, u, p), nuevo \in FilasDe(carrito', u, p) :
                nuevo.precioUnitario = it.precioUnitario
       /\ \A u \in Usuarios, p \in Productos :
            (FilasDe(carrito, u, p) = {} /\ FilasDe(carrito', u, p) # {})
            => \A nuevo \in FilasDe(carrito', u, p) :
                    nuevo.precioUnitario = producto[p].precio]_vars

\* actualizarCantidad has written a row whose product costs something else by now
C24_Witness ==
    /\ resultado.op = "actualizarCantidad"
    /\ resultado.res = "ok"
    /\ \E it \in FilasDe(carrito, resultado.id, resultado.arg) :
          /\ it.precioUnitario # producto[it.productoId].precio
          /\ it.cantidad = MaxCantidad

C26_CantidadDelCarrito ==
    /\ [](\A it \in carrito : it.cantidad >= 1)
    /\ [][/\ \A u \in Usuarios, p \in Productos, c \in (0 - 1)..0 :
                (carritoCreate(u, p, c) \/ actualizarCantidad(u, p, c))
                => resultado'.res # "ok" /\ carrito' = carrito
          /\ (resultado'.op \in {"carritoCreate", "actualizarCantidad"}
                    /\ resultado'.res = "ok")
                => /\ FilasDe(carrito', resultado'.id, resultado'.arg) # {}
                   /\ \A it \in FilasDe(carrito', resultado'.id, resultado'.arg) :
                        it.cantidad >= 1 /\ it.cantidad <= producto'[it.productoId].stock]_vars

\* a create with quantity 0 was rejected for a product that is active and in
\* stock, and the cart holds a row written earlier
C26_Witness ==
    /\ resultado.op = "carritoCreate"
    /\ resultado.res = "ValidationError"
    /\ producto[resultado.arg].existe /\ producto[resultado.arg].activo
    /\ producto[resultado.arg].stock >= 1
    /\ FilasDe(carrito, resultado.id, resultado.arg) = {}
    /\ carrito # {}

\* what the row of user u for product p adds to u's total
Aporte(u, p) ==
    IF FilasDe(carrito, u, p) = {} THEN 0
    ELSE LET it == CHOOSE it \in FilasDe(carrito, u, p) : TRUE
         IN it.precioUnitario * it.cantidad

C28_VaciarCarrito ==
    [][resultado'.op = "vaciarCarrito" =>
        LET u == resultado'.id IN
        /\ \A it \in carrito' : it.usuarioId # u
        /\ \A it \in carrito : it.usuarioId # u => it \in carrito'
        /\ carrito' \subseteq carrito
        /\ \A p \in Productos : producto'[p].stock = producto[p].stock
        /\ pedidos' = pedidos /\ detalles' = detalles]_vars

\* a cart was emptied while the other user has a row and an order with a line
\* exists
C28_Witness ==
    /\ resultado.op = "vaciarCarrito"
    /\ carrito # {}
    /\ \A it \in carrito : it.usuarioId # resultado.id
    /\ pedidos # <<>> /\ detalles # <<>>

\* C29: in every state the total of each order is the sum of the subtotals of
\* its own lines.
C29_Claim ==
    \A id \in 1..Len(pedidos) : pedidos[id].total = calcularTotalPedido(id)

\* C30: in every state the stored subtotal of each order line is its
\* precioUnitario times its cantidad, after its creation and after every update
\* of its cantidad or precioUnitario.
C30_Claim ==
    \A i \in 1..Len(detalles) :
        detalles[i].subtotal = detalles[i].precioUnitario * detalles[i].cantidad

C32_AumentarStock ==
    /\ [](\A p \in Productos, c \in Cantidades :
            (producto[p].existe /\ producto[p].stock + c <= MaxStock)
            => ENABLED aumentarStock(p, c))
    /\ [][resultado'.op = "aumentarStock" =>
            LET p == resultado'.id
                q == resultado'.arg
            IN
            /\ q >= 1
            /\ resultado'.res = "ok"
            /\ producto'[p].stock = producto[p].stock + q
            /\ \A o \in Productos \ {p} : producto'[o] = producto[o]
            /\ producto'[p] = [producto[p] EXCEPT !.stock = producto[p].stock + q]]_vars

\* two units were added to a product that had stock, next to another product
C32_Witness ==
    /\ resultado.op = "aumentarStock"
    /\ resultado.arg = 2
    /\ producto[resultado.id].stock > 2
    /\ \E o \in Productos \ {resultado.id} : producto[o].existe

\* C33: a toggleCategoria that succeeds answers with the numbers of subcategories
\* and of products whose activo the call changed: those it switched off on a
\* deactivation, zero and zero on a reactivation.
C33_Claim ==
    [][(resultado'.op = "toggleCategoria" /\ resultado'.res = "ok") =>
        LET id == resultado'.id
            respuesta == toggleCategoriaRespuesta(subcategorias', producto', id)
        IN
        /\ respuesta.subcategoria =
              Cardinality({s \in 1..Len(subcategorias) :
                              subcategorias'[s].activo # subcategorias[s].activo})
        /\ respuesta.producto =
              Cardinality({p \in Productos : producto'[p].activo # producto[p].activo})
        /\ categorias'[id].activo
              => respuesta.subcategoria = 0 /\ respuesta.producto = 0]_vars

\* C34: producto.destroy does not fail because of the deletion of the image:
\* whether the file is unlinked, is not there or the deletion throws, the
\* outcome is the one of a product without image, and a product that no order
\* line holds is deleted.
C34_ImagenTolerada ==
    [][\A p \in Productos, imagen \in BOOLEAN, archivo \in Archivos :
        productoDestroy(p, imagen, archivo) =>
            /\ resultado'.res # "FileError"
            /\ resultado'.res = productoDestroyResultado(p, FALSE, archivo)
            /\ resultado'.res # "ok" => producto' = producto /\ carrito' = carrito
            /\ (\A i \in 1..Len(detalles) : detalles[i].productoId # p)
                  => /\ resultado'.res = "ok"
                     /\ ~producto'[p].existe]_vars

\* a product with an image was deleted although the deletion of its file threw,
\* and its cart row went with it while another product's row stayed
C34_Witness ==
    /\ resultado.op = "productoDestroy"
    /\ resultado.res = "ok"
    /\ resultado.arg = "error"
    /\ ~producto[resultado.id].existe
    /\ carrito # {}

\* C35: obtenerHistorialPorUsuario(usuarioId) returns exactly the orders of that
\* user, the newest first: of two returned orders the one created later comes
\* earlier.
C35_Claim ==
    [][resultado'.op = "obtenerHistorialPorUsuario" =>
        LET u == resultado'.id
            orden == resultado'.arg
        IN
        /\ {orden[i] : i \in 1..Len(orden)} = {id \in 1..Len(pedidos) : pedidos[id].usuarioId = u}
        /\ \A i, j \in 1..Len(orden) : i < j => orden[i] > orden[j]]_vars

\* C36: an order that becomes cancelado has every line's quantity added back to
\* the stock of the line's product, once, whichever handler writes the status:
\* cambiarEstado(cancelado) as well as cancelar.
C36_Claim ==
    [][\A id \in 1..Len(pedidos) :
        (pedidos[id].estado # "cancelado" /\ pedidos'[id].estado = "cancelado")
        => \A p \in Productos :
              producto[p].existe
              => producto'[p].stock
                   = producto[p].stock + SumaCantidad(detalles, LineasDe(detalles, id), p)]_vars

\* C37: when two callers cancel the same order at the same time, whatever the
\* interleaving of their steps, no product gets the quantity of the order's
\* lines back more than once and at most one of the two calls succeeds.
C37_Claim ==
    /\ \A p \in Productos :
          producto[p].stock <= resultado.arg + SumaCantidad(detalles, LineasDe(detalles, 1), p)
    /\ Cardinality({h \in Hilos : hilo[h].op = "cancelar" /\ hilo[h].pc = "fin"
                                   /\ hilo[h].res = "ok"}) <= 1

\* C38: a cancel that fails while it gives the stock back leaves every product's
\* stock and the order's status as they were before the call.
C38_Claim ==
    [][(resultado'.op = "cancelar" /\ resultado'.res = "Error")
       => (producto' = producto /\ pedidos' = pedidos)]_vars

\* C39: the timestamps of every stored order agree with its status: pagado,
\* enviado and entregado orders have fechaPago, enviado and entregado orders have
\* fechaEnvio, entregado orders have fechaEntrega, and a pendiente order has none.
C39_Claim ==
    \A id \in 1..Len(pedidos) :
        /\ pedidos[id].estado \in {"pagado", "enviado", "entregado"} => pedidos[id].fechaPago
        /\ pedidos[id].estado \in {"enviado", "entregado"} => pedidos[id].fechaEnvio
        /\ pedidos[id].estado = "entregado" => pedidos[id].fechaEntrega
        /\ pedidos[id].estado = "pendiente"
              => ~(pedidos[id].fechaPago \/ pedidos[id].fechaEnvio \/ pedidos[id].fechaEntrega)

\* no active subcategory under an inactive category, and no active product
\* under an inactive category or an inactive subcategory
HijosActivosBajoPadresActivos ==
    /\ \A s \in 1..Len(subcategorias) :
          subcategorias[s].activo => categorias[subcategorias[s].categoriaId].activo
    /\ \A p \in Productos :
          (producto[p].existe /\ producto[p].activo)
          => /\ categorias[producto[p].categoriaId].activo
             /\ subcategorias[producto[p].subcategoriaId].activo

\* C40: a subcategory or a product created while its parent is being switched
\* off is never left active under an inactive parent: the creation is rejected
\* with InactiveParent or its row is switched off by the cascade.
C40_Claim == HijosActivosBajoPadresActivos

====
